---- MODULE Spec2Model ----
(***************************************************************************)
(* Model of the backend process supervisor of the desktop shell            *)
(* (frontend/src-tauri/src/backend.rs, BackendManager) and of the entry    *)
(* points that drive it (frontend/src-tauri/src/lib.rs).                   *)
(*                                                                         *)
(* Text (the port file's content, the backend URL) is a sequence of        *)
(* one-character strings.  Option<T> is a sequence of length 0 (None) or   *)
(* 1 (Some).                                                               *)
(***************************************************************************)
EXTENDS Integers, Sequences, FiniteSets

(***************************************************************************)
(* Bounds of the model.                                                    *)
(***************************************************************************)
\* Backend processes that may be spawned over one supervisor's lifetime.
MaxSpawn == 2
\* wait_for_port_file's time budget and poll interval, in clock ticks
\* (the code's 30000 ms / 100 ms, scaled; PollTicks < TimeoutTicks).
TimeoutTicks == 3
PollTicks == 1
\* CommandEvents one child causes before the model stops it.
MaxEvents == 3

(***************************************************************************)
(* Program constants.                                                      *)
(***************************************************************************)
U16_MAX == 65535

\* The thread that runs setup and the event handlers (lib.rs), and a thread
\* that serves commands.
Threads == {"main", "ui"}
Pids == 1..MaxSpawn

None == << >>
Some(x) == << x >>

(***************************************************************************)
(* Text conversions.                                                       *)
(***************************************************************************)
DigitChars == << "0", "1", "2", "3", "4", "5", "6", "7", "8", "9" >>
IsDigit(c) == \E i \in 1..10 : DigitChars[i] = c
DigitValue(c) == (CHOOSE i \in 1..10 : DigitChars[i] = c) - 1
IsWhitespace(c) == c \in {" ", "\n", "\t", "\r"}

RECURSIVE TrimStart(_)
TrimStart(s) ==
    IF s # << >> /\ IsWhitespace(Head(s)) THEN TrimStart(Tail(s)) ELSE s

RECURSIVE TrimEnd(_)
TrimEnd(s) ==
    IF s # << >> /\ IsWhitespace(s[Len(s)])
    THEN TrimEnd(SubSeq(s, 1, Len(s) - 1))
    ELSE s

\* str::trim
Trim(s) == TrimEnd(TrimStart(s))

\* The digit loop of str::parse::<u16>: checked multiply and add per digit.
RECURSIVE ParseDigits(_, _)
ParseDigits(s, acc) ==
    IF s = << >> THEN Some(acc)
    ELSE IF ~IsDigit(Head(s)) THEN None
    ELSE IF acc * 10 + DigitValue(Head(s)) > U16_MAX THEN None
    ELSE ParseDigits(Tail(s), acc * 10 + DigitValue(Head(s)))

\* str::parse::<u16>: empty is an error, a lone sign is an error, a leading
\* "+" is skipped, "-" is not a digit of an unsigned type.
ParseU16(s) ==
    IF s = << >> THEN None
    ELSE IF Len(s) = 1 /\ Head(s) \in {"+", "-"} THEN None
    ELSE IF Head(s) = "+" THEN ParseDigits(Tail(s), 0)
    ELSE ParseDigits(s, 0)

\* format!("{}", port) of a u16: decimal, no padding.
RECURSIVE FormatU16(_)
FormatU16(n) ==
    IF n < 10 THEN << DigitChars[n + 1] >>
    ELSE FormatU16(n \div 10) \o << DigitChars[(n % 10) + 1] >>

UrlPrefix ==
    << "h", "t", "t", "p", ":", "/", "/",
       "1", "2", "7", ".", "0", ".", "0", ".", "1", ":" >>

\* Mutant of FormatUrl: the ":" before the port is left out.
FormatUrl_NoColon(port) ==
    SubSeq(UrlPrefix, 1, Len(UrlPrefix) - 1) \o FormatU16(port)

\* format!("http://127.0.0.1:{}", port)
FormatUrl(port) == UrlPrefix \o FormatU16(port)

\* fs::read_to_string(port_file).ok().and_then(|s| s.trim().parse::<u16>().ok())
read_port_file(file) ==
    IF file = None THEN None ELSE ParseU16(Trim(file[1]))

\* Contents the port file may be given (by a backend, or left by an earlier
\* session).
PortTexts ==
    { << "6", "5", "5", "3", "5", "\n" >>,
      << "0" >>,
      << "6", "5", "5", "3", "6" >> }

\* A port file left behind by an earlier session.
StaleText == << " ", "+", "9" >>

Modes == {"obey", "ignore", "closed"}

\* The two output streams of a child (CommandEvent::Stdout, ::Stderr).
Streams == {"Stdout", "Stderr"}

\* The chunks a child's pipe reader sends: one line each, with or without
\* its line feed.
LogTexts == { << "a" >>, << "b", "\n" >>, << "\n" >> }

\* backend.log is opened for appending: what it held before.
OldLog == << "x", "\n" >>

VARIABLES
    processes,  \* BackendManager.processes: the tracked children, in push order
    lock,       \* holder of the processes mutex: None or Some(thread)
    port,       \* BackendManager.port: Option<u16>
    portFile,   \* the backend.port file: None (no file) or Some(text)
    windows,    \* the build target: cfg(windows) or cfg(not(windows))
    dropped,    \* the manager has been disposed of (Drop has begun)
    nextPid,    \* the next child the shell plugin will hand out
    alive,      \* per child: the OS process is running
    mode,       \* per child: what it does with the exit sentinel
    gotExit,    \* per child: the sentinel reached its input channel
    writes,     \* per child: process.write(EXIT_COMMAND) calls made, capped at 2
    kills,      \* per child: process.kill() calls made, capped at 2
    pc,         \* per thread: where it is in the operation it runs
    taken,      \* per thread: the children its stop_all() drained
    idx,        \* per thread: position of the drain iterator in taken
    elapsed,    \* per thread: start.elapsed() of its wait_for_port_file()
    wake,       \* per thread: when its poll sleep ends
    found,      \* per thread: the port wait_for_port_file() returned
    ret,        \* per thread: the value its operation returns
    seen,       \* per thread: whether a valid port file existed during its wait
    everStored, \* some start_all() has stored a discovered port
    stoppedClean, \* a stop_all() has returned and nothing was pushed since
    afterStop,  \* per thread: stoppedClean when its stop_all() took the lock
    sync,       \* how the uv sync of the start_all() in progress ended
    draining,   \* pids whose output is drained by a log thread
    rx,         \* log thread: CommandEvents sent and not yet received
    events,     \* log thread: number of CommandEvents the child has caused
    closed,     \* log thread: Terminated was sent, the channel is closed
    sinkPc,     \* log thread: "open", "recv" or "done"
    logFile,    \* log thread: content of backend.log
    sentBefore, \* log thread: the chunks sent before the first Error/Terminated
    terminal,   \* log thread: an Error or Terminated event has been sent
    ioErr       \* log thread: opening or writing backend.log has failed

vars ==
    << processes, lock, port, portFile, windows, dropped, nextPid, alive, mode,
       gotExit, writes, kills, pc, taken, idx, elapsed, wake, found, ret,
       seen, everStored, stoppedClean, afterStop, sync, draining, rx, events, closed,
       sinkPc, logFile, sentBefore, terminal, ioErr >>

osVars == << alive, mode, gotExit >>
countVars == << writes, kills >>
waitVars == << elapsed, wake, found, seen, everStored >>
stopVars == << taken, idx, afterStop >>
startVars == << sync, draining >>
logVars == << rx, events, closed, sinkPc, logFile, sentBefore, terminal, ioErr >>

NoRet == [op |-> "none", val |-> None]
Cap(n) == IF n < 2 THEN n + 1 ELSE 2

\* BackendManager::new, and the world it is constructed in.
Init ==
    /\ processes = << >>
    /\ lock = None
    /\ port = None
    /\ portFile \in {None, Some(StaleText)}
    /\ windows \in BOOLEAN
    /\ dropped = FALSE
    /\ nextPid = 1
    /\ alive = [p \in Pids |-> FALSE]
    /\ mode = [p \in Pids |-> "obey"]
    /\ gotExit = [p \in Pids |-> FALSE]
    /\ writes = [p \in Pids |-> 0]
    /\ kills = [p \in Pids |-> 0]
    /\ pc = [t \in Threads |-> "idle"]
    /\ taken = [t \in Threads |-> << >>]
    /\ idx = [t \in Threads |-> 0]
    /\ elapsed = [t \in Threads |-> 0]
    /\ wake = [t \in Threads |-> 0]
    /\ found = [t \in Threads |-> None]
    /\ ret = [t \in Threads |-> NoRet]
    /\ seen = [t \in Threads |-> "off"]
    /\ everStored = FALSE
    /\ stoppedClean = FALSE
    /\ afterStop = [t \in Threads |-> FALSE]
    /\ sync = "none"
    /\ draining = {}
    /\ rx = << >>
    /\ events = 0
    /\ closed = FALSE
    /\ sinkPc = "open"
    /\ logFile = OldLog
    /\ sentBefore = << >>
    /\ terminal = FALSE
    /\ ioErr = FALSE

InWait(t) == pc[t] = "wp_wait"

\* What a thread in wait_for_port_file() has seen of the port file, given the
\* file and the thread's clock: "early" once a valid file existed before the
\* deadline, "late" if one existed only from the deadline on.
Observe(s, file, el) ==
    IF read_port_file(file) = None THEN s
    ELSE IF el < TimeoutTicks THEN "early"
    ELSE IF s = "none" THEN "late" ELSE s

(***************************************************************************)
(* start_all                                                               *)
(***************************************************************************)
\* Mutant of AfterSync: a non-zero exit code aborts start_all too.
AfterSync_Strict(outcome) == IF outcome = "exit_ok" THEN "sa_remove" ELSE "sa_ret"
\* Mutant of AfterSync: start_all goes on although uv sync could not be run.
AfterSync_Always(outcome) == "sa_remove"

\* Where start_all goes after install_dependencies()?: only an Err (the
\* sidecar could not be created or spawned) returns; the exit code that
\* comes with Terminated is never looked at.
AfterSync(outcome) == IF outcome = "spawn_err" THEN "sa_ret" ELSE "sa_remove"

\* The setup thread enters start_all (lib.rs; the method is public and takes
\* &self, so it can be entered again after it has returned), which
\* runs install_dependencies()?: failing to create or spawn the uv sidecar
\* is returned; otherwise it blocks until uv sync has terminated and returns
\* Ok whatever the exit code was.
StartAllInstall(t) ==
    /\ t = "main"
    /\ pc[t] = "idle"
    /\ ~dropped
    /\ nextPid <= MaxSpawn
    /\ \E outcome \in {"spawn_err", "exit_ok", "exit_fail"} :
          /\ sync' = outcome
          /\ pc' = [pc EXCEPT ![t] = AfterSync(outcome)]
          /\ ret' = IF AfterSync(outcome) = "sa_ret"
                    THEN [ret EXCEPT ![t] = [op |-> "start_all", val |-> "ErrSync"]]
                    ELSE ret
    /\ UNCHANGED << processes, lock, port, portFile, windows, dropped, nextPid,
                    osVars, countVars, waitVars, stopVars, stoppedClean,
                    draining, logVars >>

\* let _ = fs::remove_file(port_file_path): the result is discarded, so the
\* file is gone when the removal worked and stays when it did not.
RemoveStalePortFile(t) ==
    /\ pc[t] = "sa_remove"
    /\ \E removed \in BOOLEAN :
          portFile' = IF removed THEN None ELSE portFile
    /\ pc' = [pc EXCEPT ![t] = "sa_lock"]
    /\ UNCHANGED << processes, lock, port, windows, dropped, nextPid,
                    osVars, countVars, waitVars, stopVars, ret, stoppedClean, startVars, logVars >>

\* Mutants of ProcsAfterSpawn: the child is pushed on both arms, on neither.
ProcsAfterSpawn_PushAlways(procs, ok, pid) == Append(procs, pid)
ProcsAfterSpawn_NoPush(procs, ok, pid) == procs

\* The tracked set after the match on spawn_backend_process(): Ok((rx, child))
\* pushes the child, Err(e) pushes nothing.
ProcsAfterSpawn(procs, ok, pid) == IF ok THEN Append(procs, pid) ELSE procs

\* let mut processes = self.processes.lock().unwrap(); then
\* match self.spawn_backend_process(): Ok starts the log thread and pushes
\* the child (the guard is still held); Err returns the error, which drops the guard.
SpawnBackend(t) ==
    /\ pc[t] = "sa_lock"
    /\ lock = None
    /\ \/ /\ pc' = [pc EXCEPT ![t] = "sa_ret"]
          /\ ret' = [ret EXCEPT ![t] = [op |-> "start_all", val |-> "ErrSpawn"]]
          /\ processes' = ProcsAfterSpawn(processes, FALSE, nextPid)
          /\ UNCHANGED << lock, nextPid, osVars, stoppedClean, startVars, logVars >>
       \/ /\ \E m \in Modes :
                /\ mode' = [mode EXCEPT ![nextPid] = m]
                /\ alive' = [alive EXCEPT ![nextPid] = TRUE]
          /\ draining' = draining \cup {nextPid}
          /\ sync' = sync
          /\ processes' = ProcsAfterSpawn(processes, TRUE, nextPid)
          /\ nextPid' = nextPid + 1
          /\ stoppedClean' = FALSE
          /\ lock' = Some(t)
          /\ pc' = [pc EXCEPT ![t] = "sa_unlock"]
          /\ UNCHANGED << ret, gotExit >>
    /\ UNCHANGED << port, portFile, windows, dropped, countVars, waitVars,
                    stopVars, logVars >>

\* drop(processes), then wait_for_port_file() takes its start instant.
StartAllUnlock(t) ==
    /\ pc[t] = "sa_unlock"
    /\ lock' = None
    /\ pc' = [pc EXCEPT ![t] = "wp_wait"]
    /\ elapsed' = [elapsed EXCEPT ![t] = 0]
    /\ wake' = [wake EXCEPT ![t] = 0]
    /\ seen' = [seen EXCEPT ![t] = Observe("none", portFile, 0)]
    /\ UNCHANGED << processes, port, portFile, windows, dropped, nextPid,
                    osVars, countVars, found, everStored, stopVars, ret,
                    stoppedClean, startVars, logVars >>

\* Mutant of PollOutcome: any port file that exists ends the wait, whether
\* or not it parses.
PollOutcome_AnyFile(el, file) ==
    IF el < TimeoutTicks
    THEN IF file # None THEN "found" ELSE "sleep"
    ELSE "timeout"

\* One evaluation of the loop of wait_for_port_file at elapsed time el:
\* the port read, a sleep, or the timeout.
PollOutcome(el, file) ==
    IF el < TimeoutTicks
    THEN IF read_port_file(file) # None THEN "found" ELSE "sleep"
    ELSE "timeout"

\* while start.elapsed() < timeout { read_port_file ... sleep(poll) }
WaitPoll(t) ==
    /\ pc[t] = "wp_wait"
    /\ elapsed[t] >= wake[t]
    /\ LET o == PollOutcome(elapsed[t], portFile) IN
         IF o = "found"
         THEN /\ found' = [found EXCEPT ![t] = read_port_file(portFile)]
              /\ pc' = [pc EXCEPT ![t] = "sa_store"]
              /\ UNCHANGED << wake, ret >>
         ELSE IF o = "sleep"
         THEN /\ wake' = [wake EXCEPT ![t] = elapsed[t] + PollTicks]
              /\ pc' = pc
              /\ UNCHANGED << found, ret >>
         ELSE /\ ret' = [ret EXCEPT ![t] =
                            [op |-> "start_all", val |-> "ErrTimeout"]]
              /\ pc' = [pc EXCEPT ![t] = "sa_ret"]
              /\ UNCHANGED << found, wake >>
    /\ UNCHANGED << processes, lock, port, portFile, windows, dropped, nextPid,
                    osVars, countVars, elapsed, seen, everStored, stopVars,
                    stoppedClean, startVars, logVars >>

\* Time passes for the threads asleep in the poll loop
\* (std::thread::sleep(PORT_FILE_POLL_MS)); a thread whose sleep is over
\* reads the port file before more time passes.
Tick ==
    /\ \E t \in Threads : pc[t] = "wp_wait"
    /\ \A t \in Threads : pc[t] = "wp_wait" => elapsed[t] < wake[t]
    /\ elapsed' = [t \in Threads |->
                      IF pc[t] = "wp_wait" THEN elapsed[t] + 1 ELSE elapsed[t]]
    /\ seen' = [t \in Threads |->
                   IF pc[t] = "wp_wait"
                   THEN Observe(seen[t], portFile, elapsed[t] + 1)
                   ELSE seen[t]]
    /\ UNCHANGED << processes, lock, port, portFile, windows, dropped, nextPid,
                    osVars, countVars, pc, wake, found, everStored, stopVars,
                    ret, stoppedClean, startVars, logVars >>

\* The value start_all writes to self.port for a discovered port.
StoredPort(p) == Some(p)

\* Ok(port) => *self.port.lock().unwrap() = Some(port); then Ok(()).
StorePort(t) ==
    /\ pc[t] = "sa_store"
    /\ port' = StoredPort(found[t][1])
    /\ ret' = [ret EXCEPT ![t] = [op |-> "start_all", val |-> "Ok"]]
    /\ everStored' = TRUE
    /\ pc' = [pc EXCEPT ![t] = "sa_ret"]
    /\ UNCHANGED << processes, lock, portFile, windows, dropped, nextPid,
                    osVars, countVars, elapsed, wake, found, seen, stopVars,
                    stoppedClean, startVars, logVars >>

\* The operation hands its value to the caller.
Return(t) ==
    /\ pc[t] \in {"sa_ret", "q_ret"}
    /\ pc' = [pc EXCEPT ![t] = "idle"]
    /\ ret' = [ret EXCEPT ![t] = NoRet]
    /\ found' = [found EXCEPT ![t] = None]
    /\ seen' = [seen EXCEPT ![t] = "off"]
    /\ elapsed' = [elapsed EXCEPT ![t] = 0]
    /\ wake' = [wake EXCEPT ![t] = 0]
    /\ sync' = IF pc[t] = "sa_ret" THEN "none" ELSE sync
    /\ UNCHANGED << processes, lock, port, portFile, windows, dropped, nextPid,
                    osVars, countVars, everStored, stopVars, stoppedClean,
                    draining, logVars >>

(***************************************************************************)
(* get_port, get_backend_url                                               *)
(***************************************************************************)
\* *self.port.lock().unwrap()
get_port == port

\* self.get_port().map(|port| format!("http://127.0.0.1:{}", port))
get_backend_url == IF get_port = None THEN None ELSE Some(FormatUrl(get_port[1]))

\* The get_backend_port command (lib.rs) or a direct get_port() call.
GetPort(t) ==
    /\ pc[t] = "idle"
    /\ ~dropped
    /\ ret' = [ret EXCEPT ![t] = [op |-> "get_port", val |-> get_port]]
    /\ pc' = [pc EXCEPT ![t] = "q_ret"]
    /\ UNCHANGED << processes, lock, port, portFile, windows, dropped, nextPid,
                    osVars, countVars, waitVars, stopVars, stoppedClean, startVars, logVars >>

\* The get_backend_url command (lib.rs).
GetBackendUrl(t) ==
    /\ pc[t] = "idle"
    /\ ~dropped
    /\ ret' = [ret EXCEPT ![t] = [op |-> "get_backend_url", val |-> get_backend_url]]
    /\ pc' = [pc EXCEPT ![t] = "q_ret"]
    /\ UNCHANGED << processes, lock, port, portFile, windows, dropped, nextPid,
                    osVars, countVars, waitVars, stopVars, stoppedClean, startVars, logVars >>

(***************************************************************************)
(* stop_all, request_graceful_then_kill, kill_descendants_best_effort      *)
(***************************************************************************)
\* Mutant of Cur: the drained children are taken from the back.
Cur_Reversed(t) == taken[t][Len(taken[t]) + 1 - idx[t]]

\* The child the thread's stop_all() is terminating.
Cur(t) == taken[t][idx[t]]

\* Mutant of LeftByDrain: the children are iterated but stay in the vector.
LeftByDrain_Keep(procs) == procs

\* Mutant of LoopPc: the loop bound is off by one.
LoopPc_OffByOne(drained, i) ==
    IF i <= Len(drained) THEN "rg_write" ELSE "st_done"

\* What processes.drain(..) leaves in the vector.
LeftByDrain(procs) == << >>

\* Where the loop of stop_all goes once i of the drained children are done.
LoopPc(drained, i) == IF i < Len(drained) THEN "rg_write" ELSE "st_done"

\* A caller enters stop_all (lib.rs: window destroyed, RunEvent::Exit).
StopAllBegin(t) ==
    /\ pc[t] = "idle"
    /\ ~dropped
    /\ pc' = [pc EXCEPT ![t] = "st_lock"]
    /\ UNCHANGED << processes, lock, port, portFile, windows, dropped, nextPid,
                    osVars, countVars, waitVars, stopVars, ret, stoppedClean, startVars, logVars >>

\* impl Drop: drop(&mut self) calls stop_all(); &mut self means no other
\* call is running, and none can begin afterwards.
DropBegin(t) ==
    /\ t = "main"
    /\ ~dropped
    /\ \A u \in Threads : pc[u] = "idle"
    /\ dropped' = TRUE
    /\ pc' = [pc EXCEPT ![t] = "st_lock"]
    /\ UNCHANGED << processes, lock, port, portFile, windows, nextPid,
                    osVars, countVars, waitVars, stopVars, ret, stoppedClean, startVars, logVars >>

\* let mut processes = self.processes.lock().unwrap();
\* for process in processes.drain(..) { ... }
StopAllLock(t) ==
    /\ pc[t] = "st_lock"
    /\ lock = None
    /\ lock' = Some(t)
    /\ taken' = [taken EXCEPT ![t] = processes]
    /\ processes' = LeftByDrain(processes)
    /\ idx' = [idx EXCEPT ![t] = IF processes = << >> THEN 0 ELSE 1]
    /\ afterStop' = [afterStop EXCEPT ![t] = stoppedClean]
    /\ pc' = [pc EXCEPT ![t] = LoopPc(processes, 0)]
    /\ UNCHANGED << port, portFile, windows, dropped, nextPid, osVars,
                    countVars, waitVars, ret, stoppedClean, startVars, logVars >>

\* Whether process.write(EXIT_COMMAND) succeeds: the child's input channel
\* must be open.
WriteSucceeds(p) == alive[p] /\ mode[p] # "closed"

\* Mutant of AfterWrite: a failed write ends the shutdown at once.
AfterWrite_ReturnOnErr(ok) == IF ok THEN "rg_grace" ELSE "st_done"

\* Where request_graceful_then_kill goes after the write, given its result.
AfterWrite(ok) == "rg_grace"

\* if let Err(err) = process.write(EXIT_COMMAND) { warn } else { info }
WriteExit(t) ==
    /\ pc[t] = "rg_write"
    /\ writes' = [writes EXCEPT ![Cur(t)] = Cap(@)]
    /\ gotExit' = [gotExit EXCEPT ![Cur(t)] = @ \/ WriteSucceeds(Cur(t))]
    /\ pc' = [pc EXCEPT ![t] = AfterWrite(WriteSucceeds(Cur(t)))]
    /\ UNCHANGED << processes, lock, port, portFile, windows, dropped, nextPid,
                    alive, mode, kills, waitVars, stopVars, ret,
                    stoppedClean, startVars, logVars >>

\* std::thread::sleep(GRACEFUL_TIMEOUT_SECS) has returned; then
\* kill_descendants_best_effort(pid) of the build's platform begins: on
\* cfg(not(windows)) pkill -INT -P pid is spawned (a failure is ignored) and
\* the thread sleeps 3 s.  The children of a backend are not part of the
\* state, so the pkill leaves it as it is.
GraceSleep(t) ==
    /\ pc[t] = "rg_grace"
    /\ pc' = [pc EXCEPT ![t] = IF windows THEN "kd_taskkill" ELSE "kd_sleep"]
    /\ UNCHANGED << processes, lock, port, portFile, windows, dropped, nextPid,
                    osVars, countVars, waitVars, stopVars, ret, stoppedClean, startVars, logVars >>

\* cfg(windows): taskkill /F /T /PID pid; a failure to run it is logged.
\* When it runs and the process exists, the process and its tree are gone.
Taskkill(t) ==
    /\ pc[t] = "kd_taskkill"
    /\ \E ran \in BOOLEAN :
          alive' = IF ran THEN [alive EXCEPT ![Cur(t)] = FALSE] ELSE alive
    /\ pc' = [pc EXCEPT ![t] = "rg_kill"]
    /\ UNCHANGED << processes, lock, port, portFile, windows, dropped, nextPid,
                    mode, gotExit, countVars, waitVars, stopVars, ret,
                    stoppedClean, startVars, logVars >>

\* cfg(not(windows)): std::thread::sleep(Duration::from_secs(3)) has
\* returned; pkill -KILL -P pid is spawned (a failure is ignored).
PkillSleep(t) ==
    /\ pc[t] = "kd_sleep"
    /\ pc' = [pc EXCEPT ![t] = "rg_kill"]
    /\ UNCHANGED << processes, lock, port, portFile, windows, dropped, nextPid,
                    osVars, countVars, waitVars, stopVars, ret, stoppedClean, startVars, logVars >>

\* if let Err(err) = process.kill() { error } else { info }: the kill may
\* fail, and is then only logged; then back to the loop of stop_all.
KillProcess(t) ==
    /\ pc[t] = "rg_kill"
    /\ kills' = [kills EXCEPT ![Cur(t)] = Cap(@)]
    /\ \E ok \in BOOLEAN :
          alive' = IF ok THEN [alive EXCEPT ![Cur(t)] = FALSE] ELSE alive
    /\ pc' = [pc EXCEPT ![t] = LoopPc(taken[t], idx[t])]
    /\ idx' = [idx EXCEPT ![t] = IF idx[t] < Len(taken[t]) THEN @ + 1 ELSE @]
    /\ UNCHANGED << processes, lock, port, portFile, windows, dropped, nextPid,
                    mode, gotExit, writes, waitVars, taken, afterStop,
                    ret, stoppedClean, startVars, logVars >>

\* Mutant of PortAfterStop: shutting down forgets the port.
PortAfterStop_Cleared(p) == None

\* self.port after stop_all: the function never touches it.
PortAfterStop(p) == p

\* stop_all returns (): the guard is dropped at the end of the function.
StopAllReturn(t) ==
    /\ pc[t] = "st_done"
    /\ lock' = None
    /\ port' = PortAfterStop(port)
    /\ stoppedClean' = TRUE
    /\ taken' = [taken EXCEPT ![t] = << >>]
    /\ idx' = [idx EXCEPT ![t] = 0]
    /\ afterStop' = [afterStop EXCEPT ![t] = FALSE]
    /\ pc' = [pc EXCEPT ![t] = "idle"]
    /\ UNCHANGED << processes, portFile, windows, dropped, nextPid,
                    osVars, countVars, waitVars, ret, startVars, logVars >>

(***************************************************************************)
(* The backend processes                                                   *)
(***************************************************************************)
\* A running backend writes the port file.
BackendWritesPortFile(p) ==
    /\ alive[p]
    /\ \E txt \in PortTexts : portFile' = Some(txt)
    /\ seen' = [t \in Threads |->
                   IF InWait(t) THEN Observe(seen[t], portFile', elapsed[t])
                   ELSE seen[t]]
    /\ UNCHANGED << processes, lock, port, windows, dropped, nextPid, osVars,
                    countVars, pc, elapsed, wake, found, everStored, stopVars,
                    ret, stoppedClean, startVars, logVars >>

\* A backend that reads the exit sentinel and obeys it exits.
BackendObeysExit(p) ==
    /\ alive[p]
    /\ gotExit[p]
    /\ mode[p] = "obey"
    /\ alive' = [alive EXCEPT ![p] = FALSE]
    /\ UNCHANGED << processes, lock, port, portFile, windows, dropped, nextPid,
                    mode, gotExit, countVars, pc, waitVars, stopVars, ret,
                    stoppedClean, startVars, logVars >>

Next ==
    \/ \E t \in Threads :
          \/ StartAllInstall(t)
          \/ RemoveStalePortFile(t)
          \/ SpawnBackend(t)
          \/ StartAllUnlock(t)
          \/ WaitPoll(t)
          \/ StorePort(t)
          \/ Return(t)
          \/ GetPort(t)
          \/ GetBackendUrl(t)
          \/ StopAllBegin(t)
          \/ DropBegin(t)
          \/ StopAllLock(t)
          \/ WriteExit(t)
          \/ GraceSleep(t)
          \/ Taskkill(t)
          \/ PkillSleep(t)
          \/ KillProcess(t)
          \/ StopAllReturn(t)
    \/ Tick
    \/ \E p \in Pids :
          \/ BackendWritesPortFile(p)
          \/ BackendObeysExit(p)

Spec == Init /\ [][Next]_vars

(***************************************************************************)
(* stream_backend_logs, stream_to_file: the log thread of one child        *)
(***************************************************************************)
\* What the log thread and its child leave alone.
mainVars ==
    << processes, lock, port, portFile, windows, dropped, nextPid, osVars,
       countVars, pc, waitVars, stopVars, ret, stoppedClean, startVars >>

\* Mutant of TrimEndNewlines: the chunk is written as it came.
TrimEndNewlines_Keep(s) == s

\* text.trim_end_matches('\n')
RECURSIVE TrimEndNewlines(_)
TrimEndNewlines(s) ==
    IF s # << >> /\ s[Len(s)] = "\n"
    THEN TrimEndNewlines(SubSeq(s, 1, Len(s) - 1))
    ELSE s

\* writeln!(file, "{}", text.trim_end_matches('\n')) that succeeds.
Writeln(file, text) == file \o TrimEndNewlines(text) \o << "\n" >>

\* OpenOptions::new().create(true).append(true).open(&log_path): an Err is
\* logged and ends the thread.
SinkOpen ==
    /\ sinkPc = "open"
    /\ \E ok \in BOOLEAN :
          /\ sinkPc' = IF ok THEN "recv" ELSE "done"
          /\ ioErr' = ~ok
    /\ UNCHANGED << rx, events, closed, logFile, sentBefore, terminal, mainVars >>

\* One turn of while let Some(event) = rx.blocking_recv(): a chunk is written
\* as a line (a failed write ends the loop); Error and Terminated end the loop.
SinkRecv ==
    /\ sinkPc = "recv"
    /\ rx # << >>
    /\ rx' = Tail(rx)
    /\ IF Head(rx).kind \in Streams
       THEN \E ok \in BOOLEAN :
               /\ logFile' = IF ok THEN Writeln(logFile, Head(rx).text) ELSE logFile
               /\ sinkPc' = IF ok THEN "recv" ELSE "done"
               /\ ioErr' = ~ok
       ELSE /\ sinkPc' = "done"
            /\ UNCHANGED << logFile, ioErr >>
    /\ UNCHANGED << events, closed, sentBefore, terminal, mainVars >>

\* The child writes a line to stdout or stderr; the reader of that pipe sends
\* it as CommandEvent::Stdout or CommandEvent::Stderr.
ChildEmits ==
    /\ ~closed
    /\ events < MaxEvents
    /\ \E k \in Streams, txt \in LogTexts :
          /\ rx' = Append(rx, [kind |-> k, text |-> txt])
          /\ sentBefore' = IF terminal THEN sentBefore
                           ELSE Append(sentBefore, [kind |-> k, text |-> txt])
    /\ events' = events + 1
    /\ UNCHANGED << closed, sinkPc, logFile, terminal, ioErr, mainVars >>

\* Reading a pipe of the child fails: CommandEvent::Error is sent.
ChildError ==
    /\ ~closed
    /\ events < MaxEvents
    /\ rx' = Append(rx, [kind |-> "Error", text |-> << >>])
    /\ events' = events + 1
    /\ terminal' = TRUE
    /\ UNCHANGED << closed, sinkPc, logFile, sentBefore, ioErr, mainVars >>

\* The child has exited: CommandEvent::Terminated is the last event sent.
ChildTerminated ==
    /\ ~closed
    /\ events < MaxEvents
    /\ rx' = Append(rx, [kind |-> "Terminated", text |-> << >>])
    /\ events' = events + 1
    /\ terminal' = TRUE
    /\ closed' = TRUE
    /\ UNCHANGED << sinkPc, logFile, sentBefore, ioErr, mainVars >>

LogNext ==
    \/ SinkOpen
    \/ SinkRecv
    \/ ChildEmits
    \/ ChildError
    \/ ChildTerminated

LogSpec == Init /\ [][LogNext]_vars

(***************************************************************************)
(* Properties                                                              *)
(***************************************************************************)
InStopAll(t) == pc[t] \in {"rg_write", "rg_grace", "kd_taskkill", "kd_sleep",
                           "rg_kill", "st_done"}
Taken(t) == {taken[t][i] : i \in 1..Len(taken[t])}
Spawned == 1..(nextPid - 1)

\* C1: when stop_all() is about to return, the tracked set is empty and no
\* child that it drained from the tracked set is still alive, whatever the
\* child did with the exit sentinel.
C1_StopAllLeavesNoneAlive ==
    \A t \in Threads :
        pc[t] = "st_done" =>
            /\ processes = << >>
            /\ \A p \in Taken(t) : ~alive[p]

\* C2: a stop_all() that finds the tracked set empty, or that follows a
\* stop_all() with no spawn in between, goes straight to its end: it is never
\* at a sentinel write, a sleep or a kill, and it returns no error.
C2_StopAllIdempotent ==
    \A t \in Threads :
        (InStopAll(t) /\ (afterStop[t] \/ taken[t] = << >>)) =>
            /\ pc[t] = "st_done"
            /\ taken[t] = << >>
            /\ ret[t] = NoRet

\* C2 witness: a second stop_all() is at its end after a first one killed a
\* child.
C2_Witness ==
    \E t \in Threads :
        /\ pc[t] = "st_done"
        /\ afterStop[t]
        /\ \E p \in Pids : kills[p] = 1 /\ writes[p] = 1

\* C3: wait_for_port_file returns the port whenever a valid port file
\* existed at some point before the deadline, and times out only otherwise.
C3_PortFoundIfFileBeforeDeadline ==
    \A t \in Threads :
        (pc[t] \in {"sa_store", "sa_ret"} /\ seen[t] = "early") =>
            found[t] # None

\* C4: once the port is Some(p) it never changes again.
C4_PortSetAtMostOnce == [][port # None => port' = port]_vars

\* The text of a u16 as format! writes it: digits only, no leading zero
\* except for zero itself.
IsCanonicalDecimal(s) ==
    /\ s # << >>
    /\ \A i \in 1..Len(s) : IsDigit(s[i])
    /\ (Len(s) > 1 => s[1] # "0")

\* What a returned URL must be for port p: the fixed prefix, then p in
\* canonical decimal.
IsUrlOf(u, p) ==
    /\ Len(u) > Len(UrlPrefix)
    /\ SubSeq(u, 1, Len(UrlPrefix)) = UrlPrefix
    /\ IsCanonicalDecimal(SubSeq(u, Len(UrlPrefix) + 1, Len(u)))
    /\ ParseU16(SubSeq(u, Len(UrlPrefix) + 1, Len(u))) = Some(p)

\* C5: the port is absent until a start_all() has stored a discovered port;
\* a query can be made whatever the other thread is doing, get_port()
\* returns the port as it is and get_backend_url() returns None exactly when
\* the port is None and otherwise "http://127.0.0.1:<port>".
C5_QueriesReflectPort ==
    /\ [](~everStored => port = None)
    /\ [][\A t \in Threads :
            (pc[t] = "idle" /\ pc'[t] = "q_ret") =>
               /\ ret'[t].op = "get_port" => ret'[t].val = port
               /\ ret'[t].op = "get_backend_url" =>
                    /\ (ret'[t].val = None) <=> (port = None)
                    /\ port # None => IsUrlOf(ret'[t].val[1], port[1])]_vars

\* C5 witness: get_backend_url() has returned "http://127.0.0.1:65535" while
\* the other thread is inside stop_all().
C5_Witness ==
    \E t \in Threads :
        /\ pc[t] = "q_ret"
        /\ ret[t].op = "get_backend_url"
        /\ ret[t].val = Some(UrlPrefix \o << "6", "5", "5", "3", "5" >>)
        /\ \E u \in Threads : pc[u] = "rg_grace"

C7_DropLeavesNoWorkerAlive ==
    (dropped /\ \A t \in Threads : pc[t] = "idle") =>
        \A p \in Spawned : ~alive[p]

\* C8: no child gets the exit sentinel or the kill more than once over all
\* stop_all() calls, and no two calls hold the same child.
C8_ShutdownOncePerProcess ==
    /\ \A p \in Pids : writes[p] <= 1 /\ kills[p] <= 1
    /\ \A t, u \in Threads : t # u => Taken(t) \cap Taken(u) = {}
    /\ \A p \in Pids : (\E i \in 1..Len(processes) : processes[i] = p) =>
                          writes[p] = 0 /\ kills[p] = 0

\* C8 witness: one stop_all() waits for the lock while another is in the
\* grace sleep of a child, after an earlier stop_all() killed another child.
C8_Witness ==
    \E t, u \in Threads :
        /\ pc[t] = "rg_grace"
        /\ pc[u] = "st_lock"
        /\ \E p \in Pids : kills[p] = 1

\* C9: no thread holds the processes lock while it sleeps in the grace
\* period, in the descendant kill, or in the port-file poll.
C9_NoLockAcrossBlockingWait ==
    \A t \in Threads :
        pc[t] \in {"rg_grace", "kd_sleep", "wp_wait"} => lock # Some(t)

\* C10: every child that stop_all() has been through has had the sentinel
\* write and then the kill attempted, whichever of them failed; the kill
\* never comes before the write; stop_all() goes through all the children it
\* drained and returns no error.
C10_BothPhasesAlwaysRun ==
    \A t \in Threads :
        /\ InStopAll(t) =>
              /\ ret[t] = NoRet
              /\ \A i \in 1..Len(taken[t]) :
                    (i < idx[t] \/ pc[t] = "st_done") =>
                        writes[taken[t][i]] = 1 /\ kills[taken[t][i]] = 1
              /\ pc[t] # "st_done" /\ pc[t] # "rg_write" =>
                    writes[Cur(t)] = 1 /\ kills[Cur(t)] = 0
        /\ \A p \in Pids : kills[p] > 0 => writes[p] > 0

\* C10 witness: stop_all() is at its end having drained two children; the
\* first had a closed input channel and survived a failed kill, and the
\* second was still taken through both phases.
C10_Witness ==
    \E t \in Threads :
        /\ pc[t] = "st_done"
        /\ Len(taken[t]) = 2
        /\ mode[taken[t][1]] = "closed"
        /\ alive[taken[t][1]]
        /\ kills[taken[t][1]] = 1
        /\ writes[taken[t][2]] = 1
        /\ kills[taken[t][2]] = 1

\* C11: a dependency sync that ends with a non-zero exit code does not abort
\* start_all(): the call never returns the sync error, its next step is the
\* port-file cleanup, and from there it spawns the backend and, when the
\* spawn worked, waits for the port file.
C11_SyncFailureIsSoft ==
    /\ [](sync = "exit_fail" =>
            /\ pc["main"] \in {"sa_remove", "sa_lock", "sa_unlock", "wp_wait",
                               "sa_store", "sa_ret"}
            /\ ret["main"].val # "ErrSync")
    /\ [][/\ (sync # "exit_fail" /\ sync' = "exit_fail")
               => pc'["main"] = "sa_remove"
          /\ (sync = "exit_fail" /\ pc'["main"] # pc["main"]) =>
               /\ pc["main"] = "sa_remove" => pc'["main"] = "sa_lock"
               /\ pc["main"] = "sa_lock" =>
                     \/ pc'["main"] = "sa_unlock" /\ nextPid' = nextPid + 1
                     \/ pc'["main"] = "sa_ret" /\ ret'["main"].val = "ErrSpawn"
               /\ pc["main"] = "sa_unlock" => pc'["main"] = "wp_wait"]_vars

C11_Witness ==
    /\ sync = "exit_fail"
    /\ pc["main"] = "wp_wait"
    /\ nextPid > 1
    /\ alive[nextPid - 1]
    /\ elapsed["main"] > 0

\* C12: when spawning the backend fails, start_all() returns that error with
\* the tracked set, the spawned processes and the published port exactly as
\* they were, without the processes lock, and without having entered
\* wait_for_port_file().
C12_SpawnFailureChangesNothing ==
    /\ []((pc["main"] = "sa_ret" /\ ret["main"].val = "ErrSpawn") =>
            /\ seen["main"] = "off"
            /\ found["main"] = None
            /\ elapsed["main"] = 0
            /\ lock # Some("main"))
    /\ [][/\ (pc["main"] = "sa_lock" /\ pc'["main"] = "sa_ret") =>
                /\ ret'["main"] = [op |-> "start_all", val |-> "ErrSpawn"]
                /\ processes' = processes
                /\ alive' = alive
                /\ nextPid' = nextPid
                /\ port' = port
          /\ (pc["main"] = "sa_ret" /\ ret["main"].val = "ErrSpawn") =>
                /\ port' = port
                /\ pc'["main"] \in {"sa_ret", "idle"}]_vars

C12_Witness ==
    /\ pc["main"] = "sa_ret"
    /\ ret["main"].val = "ErrSpawn"
    /\ processes = << 1 >>
    /\ port # None

\* C13: the value start_all() stores is never the one a previous session
\* left in the port file.
C13_StaleValueNeverStored == port # read_port_file(Some(StaleText))

\* C14 (as the code has it): stop_all() terminates the drained processes one
\* after another in tracked order; each is sent the exit sentinel before its
\* own kill, and a later process is sent the sentinel only after the kill of
\* every earlier one was attempted.
C14_OneProcessAtATime ==
    \A t \in Threads :
       \A i \in 1..Len(taken[t]) :
          /\ kills[taken[t][i]] >= 1 => writes[taken[t][i]] >= 1
          /\ \A j \in 1..Len(taken[t]) :
                (i < j /\ writes[taken[t][j]] >= 1) => kills[taken[t][i]] >= 1

C14_Witness ==
    \E t \in Threads :
       /\ Len(taken[t]) = 2
       /\ pc[t] = "rg_grace"
       /\ idx[t] = 2
       /\ kills[taken[t][1]] = 1
       /\ writes[taken[t][2]] = 1
       /\ kills[taken[t][2]] = 0

\* C14 (as stated): every process drained by a stop_all() has been sent its
\* graceful request before any of them is sent a forceful kill.
C14_SignalAllThenEscalateAll ==
    \A t \in Threads :
       \A p \in Taken(t), q \in Taken(t) :
          kills[p] >= 1 => writes[q] >= 1

\* C15: the grace window is waited only for a process whose exit sentinel
\* was written; a failed write goes straight to the forceful phase.
C15_NoGraceAfterFailedWrite ==
    \A t \in Threads : pc[t] = "rg_grace" => gotExit[Cur(t)]

\* The lines of a text, each ended by a line feed (an unended rest counts).
RECURSIVE LinesFrom(_, _)
LinesFrom(s, cur) ==
    IF s = << >> THEN (IF cur = << >> THEN << >> ELSE << cur >>)
    ELSE IF Head(s) = "\n" THEN << cur >> \o LinesFrom(Tail(s), << >>)
    ELSE LinesFrom(Tail(s), Append(cur, Head(s)))

\* What the log thread has appended to backend.log, as lines.
GainedLines == LinesFrom(SubSeq(logFile, Len(OldLog) + 1, Len(logFile)), << >>)

\* The line is the chunk's text, with or without the chunk's line feed.
IsLineOf(line, chunk) == chunk.text = line \/ chunk.text = line \o << "\n" >>

\* C16 (as the code has it): the log file gains one line per chunk, in the
\* order the chunks were sent (so stdout's and stderr's own orders are kept),
\* for the chunks sent before the first Error/Terminated event and received
\* before backend.log failed to open or to be written: all N of them once the
\* thread has stopped without such a failure. Once the thread has stopped it
\* writes nothing more and does not start again.
C16_OneLinePerChunkUntilFailure ==
    /\ [](/\ SubSeq(logFile, 1, Len(OldLog)) = OldLog
          /\ logFile[Len(logFile)] = "\n"
          /\ Len(GainedLines) <= Len(sentBefore)
          /\ \A i \in 1..Len(GainedLines) : IsLineOf(GainedLines[i], sentBefore[i])
          /\ (sinkPc = "recv" /\ rx = << >>) => Len(GainedLines) = Len(sentBefore)
          /\ (sinkPc = "done" /\ ~ioErr) =>
                (terminal /\ Len(GainedLines) = Len(sentBefore)))
    /\ [][sinkPc = "done" => (sinkPc' = "done" /\ logFile' = logFile)]_vars

C16_Witness ==
    /\ sinkPc = "done"
    /\ ~ioErr
    /\ Len(sentBefore) = 2
    /\ sentBefore[1] = [kind |-> "Stderr", text |-> << "b", "\n" >>]
    /\ sentBefore[2] = [kind |-> "Stdout", text |-> << "a" >>]
    /\ logFile = OldLog \o << "b", "\n", "a", "\n" >>

\* C16 (as stated): once the log thread has stopped after a terminal event,
\* the file has gained exactly as many lines as chunks were sent before that
\* event.
C16_ExactlyNLines ==
    (sinkPc = "done" /\ terminal) => Len(GainedLines) = Len(sentBefore)

\* C17: a port that is present lies in 1..65535.
C17_PortInRange == port = None \/ (port[1] >= 1 /\ port[1] <= U16_MAX)

Tracked == {processes[i] : i \in 1..Len(processes)}

\* The pid was pushed, and is tracked still or was drained by a stop_all().
PushedThenDrained(p) ==
    \/ p \in Tracked
    \/ \E t \in Threads : p \in Taken(t)
    \/ writes[p] >= 1

SyncTerminated == sync \in {"exit_ok", "exit_fail"}

\* C18: start_all() keeps the startup order: the backend is spawned only
\* after uv sync has terminated; polling begins only from the state in which
\* the spawned backend is in the tracked set and has its log thread; and
\* start_all() returns Ok only with a port that wait_for_port_file() read
\* from a valid file before the deadline and that is the published port.
C18_StartupInOrder ==
    /\ [](/\ pc["main"] \in {"sa_remove", "sa_lock", "sa_unlock", "wp_wait",
                             "sa_store"} => SyncTerminated
          /\ pc["main"] = "sa_unlock" =>
                /\ lock = Some("main")
                /\ processes # << >>
                /\ processes[Len(processes)] = nextPid - 1
                /\ (nextPid - 1) \in draining
          /\ pc["main"] \in {"wp_wait", "sa_store"} =>
                /\ (nextPid - 1) \in Spawned
                /\ (nextPid - 1) \in draining
                /\ PushedThenDrained(nextPid - 1)
          /\ (pc["main"] = "sa_ret" /\ ret["main"].val = "Ok") =>
                /\ found["main"] # None
                /\ port = found["main"]
                /\ seen["main"] = "early")
    /\ [][/\ nextPid' # nextPid =>
                (SyncTerminated /\ pc["main"] = "sa_lock"
                 /\ pc'["main"] = "sa_unlock")
          /\ (pc'["main"] = "wp_wait" /\ pc["main"] # "wp_wait") =>
                pc["main"] = "sa_unlock"
          /\ (pc'["main"] = "sa_store" /\ pc["main"] # "sa_store") =>
                pc["main"] = "wp_wait"
          /\ (ret'["main"].val = "Ok" /\ ret["main"].val # "Ok") =>
                pc["main"] = "sa_store"]_vars

C18_Witness ==
    /\ pc["main"] = "sa_ret"
    /\ ret["main"].val = "Ok"
    /\ sync = "exit_ok"
    /\ port = Some(U16_MAX)
    /\ alive[nextPid - 1]
    /\ (nextPid - 1) \in Tracked

\* C19: a backend that start_all() spawned stays in the tracked set until a
\* stop_all() drains it, also when start_all() returns the timeout error:
\* nothing but a stop_all() taking the lock removes a pid from the set, and
\* no spawned backend is killed or gone before a stop_all() has reached it.
C19_SpawnedStaysTracked ==
    /\ [](/\ \A p \in Spawned :
                /\ PushedThenDrained(p)
                /\ (~alive[p] \/ kills[p] >= 1) => writes[p] >= 1
          /\ (pc["main"] = "sa_ret" /\ ret["main"].val = "ErrTimeout") =>
                PushedThenDrained(nextPid - 1))
    /\ [][\A p \in Pids :
            (p \in Tracked /\ p \notin Tracked') =>
               \E t \in Threads :
                  /\ pc[t] = "st_lock"
                  /\ pc'[t] # "st_lock"
                  /\ p \in {taken'[t][i] : i \in 1..Len(taken'[t])}]_vars

C19_Witness ==
    /\ pc["main"] = "sa_ret"
    /\ ret["main"].val = "ErrTimeout"
    /\ processes = << 1 >>
    /\ alive[1]
    /\ writes[1] = 0

\* C20: no step of stop_all() changes the published port, and get_port()
\* never waits for the processes lock: an idle caller can always take its
\* step, and while a stop_all() holds the lock it still returns the port.
C20_StopAllLeavesPortAlone ==
    /\ [](\A t \in Threads : (pc[t] = "idle" /\ ~dropped) => ENABLED GetPort(t))
    /\ [][/\ (\E t \in Threads :
                 /\ pc'[t] # pc[t]
                 /\ pc[t] = "st_lock" \/ pc'[t] = "st_lock" \/ InStopAll(t))
               => port' = port
          /\ \A t \in Threads :
                (/\ pc[t] = "idle"
                 /\ pc'[t] = "q_ret"
                 /\ ret'[t].op = "get_port"
                 /\ \E u \in Threads : lock = Some(u) /\ InStopAll(u))
                => ret'[t].val = port]_vars

C20_Witness ==
    /\ \E t \in Threads :
          /\ pc[t] = "q_ret"
          /\ ret[t].op = "get_port"
          /\ ret[t].val = port
    /\ port # None
    /\ stoppedClean
    /\ processes = << >>
    /\ Spawned # {}
    /\ \A p \in Spawned : ~alive[p] /\ kills[p] >= 1

====
